---- MODULE Spec2Model ----
(***************************************************************************)
(* Render job lifecycle of the video-template backend:                     *)
(*   routes/projects.py        create / delete / render / callback routes  *)
(*                             and the two background render jobs          *)
(*   services/render_engine.py the HTTP client with retries and the        *)
(*                             RenderEngine facade                         *)
(*   models/project.py         the persisted project document              *)
(*                                                                         *)
(* The event loop is single threaded and cooperative: a coroutine runs     *)
(* without interruption from one await to the next.  Every action below is *)
(* one such stretch of a handler or of a background job and holds at most  *)
(* one access to project_collection.  Calls to the render engine touch no  *)
(* shared state, so a stretch may contain one together with the database   *)
(* write that follows it.                                                  *)
(***************************************************************************)
EXTENDS Integers, Sequences, FiniteSets, TLC

VARIABLES
    project_collection,  \* project_id -> document, or NoDocument
    issued,              \* project ids create_project has handed out
    tasks,               \* background tasks added by render_project, in order
    clock,               \* reads of datetime.utcnow() so far
    callbacks,           \* requests render_callback has served
    http_response,       \* the answer of the latest API request
    audit,               \* what tasks keep of their engine calls: "none",
                         \* "tally" (the requests sent) or "trace"
    exchange,            \* the latest call of a pure function on its own
    template_collection, \* template_id -> template document
    saved_templates_collection  \* the (user_id, template_id) pairs saved

\* The collections of the template catalog.
catalog == <<template_collection, saved_templates_collection>>

vars == <<project_collection, issued, tasks, clock, callbacks, http_response,
          audit, exchange, catalog>>

\* ------------------------------------------------------------------ bounds

\* Render requests accepted over a behaviour with use_real_render=true
\* (process_real_render_job tasks ever added).
MaxRealJobs == 1

\* Render requests accepted over a behaviour with use_real_render=false
\* (process_mock_render_job tasks ever added).
MaxMockJobs == 1

\* Requests to the callback endpoint over a behaviour.
MaxCallbacks == 1

\* Keys in the parameters mapping handed to _transform_parameters on its own.
MaxParams == 2

\* ------------------------------------------------------- program constants

\* self.max_retries
max_retries == 3

\* max_polls in process_real_render_job
max_polls == 60

\* ------------------------------------------------------------------ values

\* Python's None, and a present value v of an Optional field.
None == <<>>
Some(v) == <<v>>

Users == {"alice", "bob"}

\* The users who create projects.
Creators == {"alice"}

\* The ids uuid4 produces in a behaviour.  A request may name an id before
\* create_project has issued it or after delete_project has removed its
\* document: it then names no project.
ProjectIds == {"proj_a"}
RequestIds == ProjectIds

NoDocument == [absent |-> TRUE]

\* class ProjectStatus
DRAFT == "draft"
PROCESSING == "processing"
COMPLETED == "completed"
FAILED == "failed"
ProjectStatus == {DRAFT, PROCESSING, COMPLETED, FAILED}

\* A Project whose is_public defaults to True.
Project_public(user_id, project_data) ==
    [ user_id             |-> user_id,
      template_id         |-> project_data.template_id,
      parameters          |-> project_data.parameters,
      status              |-> "draft",
      video_url           |-> <<>>,
      thumbnail_url       |-> <<>>,
      duration_seconds    |-> <<>>,
      file_size_mb        |-> <<>>,
      render_started_at   |-> <<>>,
      render_completed_at |-> <<>>,
      is_public           |-> TRUE ]

\* class Project: the document create_project inserts for user_id from the
\* ProjectCreate body project_data.
Project(user_id, project_data) ==
    [ user_id             |-> user_id,
      template_id         |-> project_data.template_id,
      parameters          |-> project_data.parameters,
      status              |-> DRAFT,
      video_url           |-> None,
      thumbnail_url       |-> None,
      duration_seconds    |-> None,
      file_size_mb        |-> None,
      render_started_at   |-> None,
      render_completed_at |-> None,
      is_public           |-> FALSE ]

\* ---------------------------------------------------------------- database

\* find_one({"project_id": pid}).
find_one(coll, pid) ==
    IF pid \in DOMAIN coll THEN coll[pid] ELSE NoDocument

\* find_one that leaves user_id out of its filter.
find_one_by_id(coll, pid, user) ==
    IF pid \in DOMAIN coll THEN coll[pid] ELSE NoDocument

\* find_one({"project_id": pid, "user_id": user}).
find_one_owned(coll, pid, user) ==
    IF pid \in DOMAIN coll /\ coll[pid] # NoDocument /\ coll[pid].user_id = user
    THEN coll[pid]
    ELSE NoDocument

\* update_one with upsert=True: a filter that matches no document inserts
\* one made of the fields set.
update_one_upsert(coll, pid, fields) ==
    IF pid \notin DOMAIN coll THEN coll
    ELSE [coll EXCEPT ![pid] =
            IF coll[pid] # NoDocument
            THEN [f \in DOMAIN coll[pid] |->
                    IF f \in DOMAIN fields THEN fields[f] ELSE coll[pid][f]]
            ELSE fields]

\* update_one({"project_id": pid}, {"$set": fields}): no upsert, so a filter
\* that matches no document changes nothing.
update_one(coll, pid, fields) ==
    IF pid \in DOMAIN coll /\ coll[pid] # NoDocument
    THEN [coll EXCEPT ![pid] =
            [f \in DOMAIN coll[pid] |->
                IF f \in DOMAIN fields THEN fields[f] ELSE coll[pid][f]]]
    ELSE coll

\* The value datetime.utcnow() returns at the next read.
utcnow == Some(clock + 1)

\* ------------------------------------------------------------ render engine

\* What the render engine (or the network) answers to one HTTP attempt:
\* a response with a status and a JSON body, or a transport failure.
Http(status, body) == [kind |-> "http", status |-> status, body |-> body]
Timeout == [kind |-> "timeout", status |-> 0, body |-> <<>>]
Refused == [kind |-> "refused", status |-> 0, body |-> <<>>]

\* JSON bodies of a 202: the engine names the output file, the engine names
\* only a job (src/dummy_render_engine.py), the engine sends {}.
\* A string built by an f-string is the sequence of its parts.
BodyFile == [filename |-> <<"out", ".mp4">>]
BodyJob == [job_id |-> <<"job_1">>]
BodyEmpty == <<>>

PostAnswers ==
    { Http(202, BodyFile), Http(202, BodyJob), Http(202, BodyEmpty),
      Http(200, BodyEmpty), Http(400, BodyEmpty), Http(500, BodyEmpty),
      Timeout, Refused }

HeadAnswers ==
    { Http(200, BodyEmpty), Http(404, BodyEmpty), Http(500, BodyEmpty), Timeout }

\* The answers the engine would give to the attempts of one logical call, in
\* order: one more than the client is meant to ask for.
Scripts(answers) == [1..(max_retries + 1) -> answers]

\* dict.get(key, default)
get(dict, key, default) ==
    IF key \in DOMAIN dict THEN dict[key] ELSE default

\* Python truthiness of an Optional[dict]: None and {} are falsy.
truthy(value) == value # None /\ DOMAIN value[1] # {}

\* An attempt that takes the 404 of a HEAD for an error, like any other
\* status that is not 200.
attempt_effect_head_strict(method, answer) ==
    IF method = "HEAD"
    THEN IF answer.status = 200
         THEN [kind |-> "return", value |-> Some([status |-> "ready"])]
         ELSE [kind |-> "raise", value |-> None]
    ELSE IF answer.status = 202
    THEN [kind |-> "return", value |-> Some(answer.body)]
    ELSE IF answer.status >= 400
    THEN [kind |-> "raise", value |-> None]
    ELSE [kind |-> "fallthrough", value |-> None]

\* One pass through the body of the `async with session` block of
\* _make_request: what the response makes the attempt do.
attempt_effect(method, answer) ==
    CASE method = "POST" ->
            IF answer.status = 202
            THEN [kind |-> "return", value |-> Some(answer.body)]
            ELSE IF answer.status >= 400
            THEN [kind |-> "raise", value |-> None]
            ELSE [kind |-> "fallthrough", value |-> None]
      [] method = "GET" ->
            IF answer.status = 200
            THEN [kind |-> "return", value |-> Some(answer.body)]
            ELSE IF answer.status = 404
            THEN [kind |-> "return", value |-> Some([status |-> "not_found"])]
            ELSE IF answer.status >= 400
            THEN [kind |-> "raise", value |-> None]
            ELSE [kind |-> "fallthrough", value |-> None]
      [] method = "HEAD" ->
            IF answer.status = 200
            THEN [kind |-> "return", value |-> Some([status |-> "ready"])]
            ELSE IF answer.status = 404
            THEN [kind |-> "return", value |-> Some([status |-> "not_found"])]
            ELSE [kind |-> "raise", value |-> None]
      [] OTHER -> [kind |-> "fallthrough", value |-> None]

\* The for loop of _make_request from iteration `attempt` on, for
\* range(retries).  The result says whether the call raised, the value it
\* returned, the answers it consumed (one per HTTP attempt) and how often it
\* slept retry_delay.
RECURSIVE retry_loop(_, _, _, _, _)
retry_loop(method, script, retries, attempt, delays) ==
    IF attempt = retries
    THEN \* the loop ran out without return or raise: the function returns None
         [raised |-> FALSE, value |-> None, error |-> "",
          answers |-> SubSeq(script, 1, attempt), delays |-> delays]
    ELSE
    LET answer == script[attempt + 1]
        last == (attempt = retries - 1)
        consumed == SubSeq(script, 1, attempt + 1)
        effect == IF answer.kind = "http"
                  THEN attempt_effect(method, answer)
                  ELSE [kind |-> "raise", value |-> None]
        error == CASE answer.kind = "timeout" -> "timeout"
                   [] answer.kind = "refused" -> "connection"
                   [] answer.status >= 400 /\ answer.status < 500 -> "rejected"
                   [] OTHER -> "engine_error"
    IN  CASE effect.kind = "return" ->
                [raised |-> FALSE, value |-> effect.value, error |-> "",
                 answers |-> consumed, delays |-> delays]
          [] effect.kind = "raise" ->
                \* both except clauses: give up on the last attempt, else sleep
                IF last
                THEN [raised |-> TRUE, value |-> None, error |-> error,
                      answers |-> consumed, delays |-> delays]
                ELSE retry_loop(method, script, retries, attempt + 1, delays + 1)
          [] OTHER ->
                retry_loop(method, script, retries, attempt + 1, delays)

\* _make_request with one iteration too many.
make_request_once_more(method, script) ==
    retry_loop(method, script, max_retries + 1, 0, 0)

\* RenderEngineClient._make_request
make_request(method, script) == retry_loop(method, script, max_retries, 0, 0)

\* self.render_engine_base_url
render_engine_base_url == "http://localhost:8001"

\* Every way a logical call with `method` can go, over all the answers the
\* engine may give to its attempts.
Calls(method, answers) == { make_request(method, script) : script \in Scripts(answers) }
PostCalls == Calls("POST", PostAnswers)
HeadCalls == Calls("HEAD", HeadAnswers)

\* A call without the trace of its attempts.
untraced(call) == [call EXCEPT !.answers = <<>>, !.delays = 0]

\* A str or a number as JSON carries it: a present value holding the parts of
\* its text.
lit(text) == Some(<<text>>)

\* What an f-string makes of a value: str(None) is "None".
format(value) == IF value = None THEN <<"None">> ELSE value[1]

\* The template ids _transform_parameters has a branch for.
KnownTemplates ==
    { "text-reveal", "tmpl-newspaper", "tmpl-social-story",
      "tmpl-corporate-intro", "tmpl-wedding-announcement" }

\* The eight fields of the JSON body the renderer reads.
RendererFields ==
    { "text", "speed", "font_name", "font_size", "font_color", "bg_color",
      "duration", "resolution" }

\* _transform_parameters that hands the parameters on as they are and fills
\* in the renderer fields they lack.
transform_parameters_passthrough(template_id, parameters) ==
    [f \in RendererFields \cup DOMAIN parameters |->
        IF f \in DOMAIN parameters THEN parameters[f] ELSE lit("Default Text")]

\* RenderEngineClient._transform_parameters
transform_parameters(template_id, parameters) ==
    CASE template_id = "text-reveal" ->
            [text       |-> get(parameters, "text", lit("Default Text")),
             speed      |-> get(parameters, "speed", lit("0.1")),
             font_name  |-> get(parameters, "font", lit("Arial")),
             font_size  |-> get(parameters, "font_size", lit("48")),
             font_color |-> get(parameters, "font_color", lit("#FF0000")),
             bg_color   |-> get(parameters, "background_color", lit("#FFFFFF")),
             duration   |-> get(parameters, "duration", lit("5.0")),
             resolution |-> lit("1920x1080")]
      [] template_id = "tmpl-newspaper" ->
            [text       |-> get(parameters, "headline", lit("Breaking News")),
             speed      |-> lit("0.1"),
             font_name  |-> lit("Arial"),
             font_size  |-> lit("24"),
             font_color |-> get(parameters, "theme_color", lit("#FF0000")),
             bg_color   |-> lit("#FFFFFF"),
             duration   |-> lit("30.0"),
             resolution |-> lit("1920x1080")]
      [] template_id = "tmpl-social-story" ->
            [text       |-> get(parameters, "text", lit("Social Story")),
             speed      |-> lit("0.15"),
             font_name  |-> lit("Arial"),
             font_size  |-> lit("20"),
             font_color |-> lit("#FFFFFF"),
             bg_color   |-> get(parameters, "overlay_color", lit("#000000")),
             duration   |-> lit("15.0"),
             resolution |-> lit("1080x1920")]
      [] template_id = "tmpl-corporate-intro" ->
            [text       |-> get(parameters, "company_name", lit("Company")),
             speed      |-> lit("0.08"),
             font_name  |-> lit("Arial"),
             font_size  |-> lit("28"),
             font_color |-> get(parameters, "primary_color", lit("#0066CC")),
             bg_color   |-> get(parameters, "secondary_color", lit("#FFFFFF")),
             duration   |-> lit("20.0"),
             resolution |-> lit("1920x1080")]
      [] template_id = "tmpl-wedding-announcement" ->
            LET bride == get(parameters, "bride_name", lit(""))
                groom == get(parameters, "groom_name", lit(""))
                text == Some(format(bride) \o <<" & ">> \o format(groom))
            IN  [text       |-> text,
                 speed      |-> lit("0.12"),
                 font_name  |-> lit("Arial"),
                 font_size  |-> lit("26"),
                 font_color |-> get(parameters, "theme_color", lit("#FFD700")),
                 bg_color   |-> lit("#FFFFFF"),
                 duration   |-> lit("25.0"),
                 resolution |-> lit("1920x1080")]
      [] OTHER ->
            [text       |-> lit("Default Text"),
             speed      |-> lit("0.1"),
             font_name  |-> lit("Arial"),
             font_size  |-> lit("24"),
             font_color |-> lit("#000000"),
             bg_color   |-> lit("#FFFFFF"),
             duration   |-> lit("30.0"),
             resolution |-> lit("1920x1080")]

\* template_mapping.get(template_name, "text_reveal")
render_template_name(template_name) ==
    IF template_name \in KnownTemplates THEN "text_reveal" ELSE "text_reveal"

\* start_render_job that sends nothing for a template id it does not know.
render_request_known_only(template_name, parameters) ==
    IF template_name \in KnownTemplates
    THEN [endpoint |-> <<"/render/", render_template_name(template_name)>>,
          data     |-> transform_parameters(template_name, parameters)]
    ELSE [endpoint |-> <<>>, data |-> <<>>]

\* RenderEngineClient.start_render_job up to the POST: the endpoint and the
\* JSON body of the request.  Nothing in it raises.
render_request(template_name, parameters) ==
    [endpoint |-> <<"/render/", render_template_name(template_name)>>,
     data     |-> transform_parameters(template_name, parameters)]

\* RenderEngineClient.start_render_job: the POST, whose result `response` is
\* returned, or whose exception is wrapped and raised again.
client_start_render_job(response) == response

\* start_render_job that takes a raised exception for a started job.
start_render_job_optimistic(project_id, post) ==
    [success |-> TRUE, render_job_id |-> Some(<<project_id, ".mp4">>), error |-> ""]

\* RenderEngine.start_render_job: the render_result the background job reads.
start_render_job(project_id, post) ==
    LET response == client_start_render_job(post)
    IN  IF response.raised
        THEN [success |-> FALSE, render_job_id |-> None, error |-> response.error]
        ELSE IF truthy(response.value)
        THEN [success |-> TRUE,
              render_job_id |->
                  Some(get(response.value[1], "filename", <<project_id, ".mp4">>)),
              error |-> ""]
        ELSE [success |-> FALSE, render_job_id |-> None,
              error |-> "Failed to start render job"]

\* RenderEngineClient.check_render_status: the HEAD, with any exception
\* turned into {"status": "error"}.
check_render_status(head) ==
    IF head.raised
    THEN [status |-> "error"]
    ELSE [status |-> head.value[1].status]

\* str.replace(old, new) on a string held as its parts.
replace(string, old, new) ==
    [i \in DOMAIN string |-> IF string[i] = old THEN new ELSE string[i]]

\* check_render_completion that reports a status check in error as a failed
\* render.
check_render_completion_strict(render_job_id, head) ==
    [completed |-> check_render_status(head).status # "not_found",
     success |-> check_render_status(head).status = "ready",
     video_url |-> Some(<<render_engine_base_url, "/videos/">> \o render_job_id),
     thumbnail_url |-> Some(<<render_engine_base_url, "/videos/">> \o render_job_id),
     duration_seconds |-> Some(30), file_size_mb |-> Some("2.5")]

\* RenderEngine.check_render_completion: the completion_result the poll loop
\* reads.  check_render_status raises nothing, so the except branch
\* ({"completed": True, "success": False}) is never taken.
check_render_completion(render_job_id, head) ==
    LET status_response == check_render_status(head)
    IN  IF status_response.status = "ready"
        THEN [completed |-> TRUE, success |-> TRUE,
              video_url |->
                  Some(<<render_engine_base_url, "/videos/">> \o render_job_id),
              thumbnail_url |->
                  Some(<<render_engine_base_url, "/videos/">>
                       \o replace(render_job_id, ".mp4", ".jpg")),
              duration_seconds |-> Some(30),
              file_size_mb |-> Some("2.5")]
        ELSE [completed |-> FALSE, success |-> FALSE,
              video_url |-> None, thumbnail_url |-> None,
              duration_seconds |-> None, file_size_mb |-> None]

\* RenderEngine.mock_render_job
mock_render_job ==
    [success |-> TRUE,
     video_url |->
        Some(<<"https://sample-videos.com/zip/10/mp4/SampleVideo_1280x720_1mb.mp4">>),
     thumbnail_url |->
        Some(<<"https://img.youtube.com/vi/dQw4w9WgXcQ/maxresdefault.jpg">>),
     duration_seconds |-> Some(30),
     file_size_mb |-> Some("2.5")]

\* ------------------------------------------------------------------- state

NoCall == [method |-> "", answers |-> <<>>, raised |-> FALSE, error |-> "",
           delays |-> 0]

\* What a task keeps of an engine call it made: under audit the
\* method, the answer to each HTTP attempt and how the call ended.
recorded(method, response) ==
    IF audit = "trace"
    THEN [method |-> method, answers |-> response.answers,
          raised |-> response.raised, error |-> response.error,
          delays |-> response.delays]
    ELSE NoCall

\* The calls a job can make: without audit the
\* trace of a call is not kept, and calls that end alike are one.
engine_calls(calls) ==
    IF audit # "none" THEN calls ELSE { untraced(call) : call \in calls }

\* The task after an engine call: under tally the HTTP requests the call
\* sent are added to those the task has sent by that method.
tallied(task, method, response) ==
    IF audit = "tally"
    THEN [task EXCEPT !.sent[method] = @ + Len(response.answers)]
    ELSE task

\* The poll statuses a task has seen so far (kept under audit only).
seen(polled, status) ==
    IF audit = "trace" THEN polled \cup {status} ELSE polled

\* background_tasks.add_task(process_*_render_job, project_id, username)
Task(project_id, user_id, use_real_render) ==
    [ project_id      |-> project_id,
      user_id         |-> user_id,
      use_real_render |-> use_real_render,
      pc              |-> "start",
      attempt         |-> 0,         \* calls of check_render_completion made
      render_job_id   |-> None,
      project         |-> None,      \* what the job reads of the document found
      request         |-> None,      \* the request the job submitted
      outcome         |-> "",        \* how the job ended, once pc = "done"
      writes          |-> <<>>,      \* the statuses the job has written
      call            |-> NoCall,
      polled          |-> {},
      sent            |-> [POST |-> 0, HEAD |-> 0] ]  \* HTTP requests sent

\* The answer to an API request: the handler that gave it, the id the request
\* named, the status code and, where the claims read it, the JSON body.
NoResponse ==
    [handler |-> "", project_id |-> "", status_code |-> 0, body |-> None]
Response(handler, project_id, status_code) ==
    [handler |-> handler, project_id |-> project_id,
     status_code |-> status_code, body |-> None]

\* class Template, as far as the routes read it.
Template(category, tags, is_active) ==
    [category |-> category, tags |-> tags, is_active |-> is_active]

\* The templates of the catalog: two of the samples startup_event inserts
\* and one added to the collection since.
SeededTemplates ==
    [template_id \in {"tmpl-newspaper", "tmpl-corporate-intro", "tmpl-countdown"} |->
        CASE template_id = "tmpl-newspaper" ->
                Template("News", {"news", "professional"}, TRUE)
          [] template_id = "tmpl-corporate-intro" ->
                Template("Business", {"business", "professional"}, TRUE)
          [] OTHER ->
                Template("Events", {"countdown"}, TRUE)]

\* find_one({"template_id": template_id}), whatever is_active says.
find_template(templates, template_id) ==
    IF template_id \in DOMAIN templates
    THEN Some(templates[template_id])
    ELSE None

\* template_collection.find_one({"template_id": template_id, "is_active": True})
find_active_template(templates, template_id) ==
    IF template_id \in DOMAIN templates /\ templates[template_id].is_active
    THEN Some(templates[template_id])
    ELSE None

\* The tasks added so far that run process_real_render_job (real = TRUE) or
\* process_mock_render_job.
added(real) ==
    Cardinality({j \in 1..Len(tasks) : tasks[j].use_real_render = real})

\* Whether the behaviour has room for one more accepted render request.
admits(use_real_render) ==
    added(use_real_render) <
        (IF use_real_render THEN MaxRealJobs ELSE MaxMockJobs)

NoExchange == [method |-> "", script |-> <<>>, result |-> NoCall]

TypeOK ==
    /\ DOMAIN project_collection = ProjectIds
    /\ issued \subseteq ProjectIds
    /\ added(TRUE) <= MaxRealJobs
    /\ added(FALSE) <= MaxMockJobs
    /\ clock \in Nat
    /\ callbacks \in 0..MaxCallbacks
    /\ audit \in {"none", "tally", "trace"}

InitState ==
    /\ project_collection = [pid \in ProjectIds |-> NoDocument]
    /\ issued = {}
    /\ tasks = <<>>
    /\ clock = 0
    /\ callbacks = 0
    /\ http_response = NoResponse
    /\ exchange = NoExchange
    /\ template_collection = SeededTemplates
    /\ saved_templates_collection = {}

\* Concurrent render requests, no audit of the engine calls.
Init == InitState /\ audit = "none"

\* ---------------------------------------------------------- route handlers

\* A ProjectCreate body: a news story with its headline and theme colour.
NewsStory ==
    [template_id |-> "tmpl-newspaper",
     parameters  |-> [headline |-> Some(<<"X">>),
                      theme_color |-> Some(<<"#112233">>)]]

\* The ProjectCreate bodies of a render cycle: the news story, and a project
\* of a template the transformer has no branch for.
ProjectCreates ==
    { NewsStory,
      [template_id |-> "tmpl-countdown",
       parameters  |-> [text |-> Some(<<"X">>)]] }

\* create_project: the lookup of an active template, then the insert under
\* a fresh id.
create_project(user, project_data) ==
    /\ IF find_active_template(template_collection, project_data.template_id) = None
       THEN /\ http_response' = Response("create_project", "", 404)
            /\ UNCHANGED <<project_collection, issued>>
       ELSE \E pid \in ProjectIds \ issued :
            /\ project_collection' =
                [project_collection EXCEPT ![pid] = Project(user, project_data)]
            /\ issued' = issued \cup {pid}
            /\ http_response' = Response("create_project", pid, 200)
    /\ UNCHANGED <<tasks, clock, callbacks, audit, exchange, catalog>>

\* delete_project
delete_project(pid, user) ==
    LET found == find_one_owned(project_collection, pid, user) # NoDocument
    IN  /\ project_collection' =
            IF found THEN [project_collection EXCEPT ![pid] = NoDocument]
            ELSE project_collection
        /\ http_response' =
            Response("delete_project", pid, IF found THEN 200 ELSE 404)
        /\ UNCHANGED <<issued, tasks, clock, callbacks, audit, exchange, catalog>>

\* render_project_status with the guard on PROCESSING left out.
render_project_status_unguarded(project) ==
    IF project = NoDocument THEN 404 ELSE 200

\* render_project_status that admits a project only for its first render.
render_project_status_first_only(project) ==
    IF project = NoDocument THEN 404
    ELSE IF project.status # DRAFT THEN 400
    ELSE 200

\* The status code render_project answers with for the document it found.
render_project_status(project) ==
    IF project = NoDocument THEN 404
    ELSE IF project.status = PROCESSING THEN 400
    ELSE 200

\* render_project: the guard, and on acceptance the background task.  The task
\* starts only after the response is sent.
render_project(pid, user, use_real_render) ==
    LET project == find_one_owned(project_collection, pid, user)
        code == render_project_status(project)
    IN  /\ code = 200 => admits(use_real_render)
        /\ tasks' = IF code = 200
                    THEN Append(tasks, Task(pid, user, use_real_render))
                    ELSE tasks
        /\ http_response' = Response("render_project", pid, code)
        /\ UNCHANGED <<project_collection, issued, clock, callbacks, audit,
                   exchange, catalog>>

\* The bodies the render engine (or anyone else) may post to the callback.
CallbackPayloads ==
    { [success |-> TRUE, video_url |-> Some(<<"https://cdn/cb.mp4">>),
       thumbnail_url |-> Some(<<"https://cdn/cb.jpg">>),
       duration_seconds |-> Some(12), file_size_mb |-> Some("12.7")],
      [success |-> TRUE],
      [success |-> FALSE],
      <<>> }

\* The $set render_callback issues for callback_data.
callback_fields(callback_data, now) ==
    IF get(callback_data, "success", FALSE)
    THEN [status |-> COMPLETED,
          video_url |-> get(callback_data, "video_url", None),
          thumbnail_url |-> get(callback_data, "thumbnail_url", None),
          duration_seconds |-> get(callback_data, "duration_seconds", None),
          file_size_mb |-> get(callback_data, "file_size_mb", None),
          render_completed_at |-> now]
    ELSE [status |-> FAILED, render_completed_at |-> now]

\* render_callback that insists on a success field and on a matching project.
render_callback_strict(pid, callback_data) ==
    LET known == "success" \in DOMAIN callback_data
                    /\ find_one(project_collection, pid) # NoDocument
    IN  /\ callbacks < MaxCallbacks
        /\ callbacks' = callbacks + 1
        /\ project_collection' =
            IF known
            THEN update_one(project_collection, pid,
                            callback_fields(callback_data, utcnow))
            ELSE project_collection
        /\ clock' = clock + 1
        /\ http_response' =
            Response("render_callback", pid, IF known THEN 200 ELSE 404)
        /\ UNCHANGED <<issued, tasks, audit, exchange, catalog>>

\* render_callback
render_callback(pid, callback_data) ==
    /\ callbacks < MaxCallbacks
    /\ callbacks' = callbacks + 1
    /\ project_collection' =
        update_one(project_collection, pid, callback_fields(callback_data, utcnow))
    /\ clock' = clock + 1
    /\ http_response' = Response("render_callback", pid, 200)
    /\ UNCHANGED <<issued, tasks, audit, exchange, catalog>>

\* The fields class ProjectUpdate declares, as far as the document of the
\* model holds them (name, description and render_quality are not modelled).
ProjectUpdateFields == {"parameters", "is_public"}

\* ProjectUpdate that takes over every key of the request body.
ProjectUpdate_any(body) == body

\* class ProjectUpdate parsed from a JSON body: keys the class does not
\* declare are ignored, declared keys the body lacks are None.
ProjectUpdate(body) ==
    [f \in ProjectUpdateFields |-> IF f \in DOMAIN body THEN body[f] ELSE None]

\* {k: v for k, v in project_update.dict().items() if v is not None}, with
\* the values as update_one stores them.
update_data(project_update) ==
    [f \in {k \in DOMAIN project_update : project_update[k] # None} |->
        project_update[f][1]]

\* The JSON bodies sent to update_project: a visibility change, new
\* parameters with a null visibility, a body naming the fields of the render
\* lifecycle, an empty body.
UpdateBodies ==
    { [is_public |-> Some(TRUE)],
      [parameters |-> Some([headline |-> Some(<<"Y">>)]), is_public |-> None],
      [status |-> Some(COMPLETED), video_url |-> Some(Some(<<"https://x/y.mp4">>)),
       render_completed_at |-> Some(Some(0))],
      <<>> }

\* update_project that looks the project up by its id alone.
update_project_open(pid, user, body) ==
    LET found == find_one(project_collection, pid) # NoDocument
    IN  /\ project_collection' =
            IF found
            THEN update_one(project_collection, pid, update_data(ProjectUpdate(body)))
            ELSE project_collection
        /\ http_response' =
            Response("update_project", pid, IF found THEN 200 ELSE 404)
        /\ UNCHANGED <<issued, tasks, clock, callbacks, audit, exchange, catalog>>

\* update_project.  The filter of its update_one repeats that of its
\* find_one, so the write changes the owner's document or nothing.
update_project(pid, user, body) ==
    LET found == find_one_owned(project_collection, pid, user) # NoDocument
    IN  /\ project_collection' =
            IF found
            THEN update_one(project_collection, pid, update_data(ProjectUpdate(body)))
            ELSE project_collection
        /\ http_response' =
            Response("update_project", pid, IF found THEN 200 ELSE 404)
        /\ UNCHANGED <<issued, tasks, clock, callbacks, audit, exchange, catalog>>

\* get_project (the body, the whole document, is not kept)
get_project(pid, user) ==
    LET found == find_one_owned(project_collection, pid, user) # NoDocument
    IN  /\ http_response' =
            Response("get_project", pid, IF found THEN 200 ELSE 404)
        /\ UNCHANGED <<project_collection, issued, tasks, clock, callbacks,
                       audit, exchange, catalog>>

\* get_user_projects (the body, the user's documents, is not kept)
get_user_projects(user) ==
    /\ http_response' = Response("get_user_projects", "", 200)
    /\ UNCHANGED <<project_collection, issued, tasks, clock, callbacks,
                   audit, exchange, catalog>>

\* The body get_render_status returns for the document it found.
render_status_body(pid, project) ==
    [project_id          |-> pid,
     status              |-> project.status,
     video_url           |-> project.video_url,
     thumbnail_url       |-> project.thumbnail_url,
     render_started_at   |-> project.render_started_at,
     render_completed_at |-> project.render_completed_at,
     duration_seconds    |-> project.duration_seconds,
     file_size_mb        |-> project.file_size_mb]

\* get_render_status that looks the project up by its id alone.
get_render_status_open(pid, user) ==
    LET project == find_one(project_collection, pid)
    IN  /\ http_response' =
            IF project = NoDocument
            THEN Response("get_render_status", pid, 404)
            ELSE [Response("get_render_status", pid, 200) EXCEPT
                    !.body = Some(render_status_body(pid, project))]
        /\ UNCHANGED <<project_collection, issued, tasks, clock, callbacks,
                       audit, exchange, catalog>>

\* get_render_status
get_render_status(pid, user) ==
    LET project == find_one_owned(project_collection, pid, user)
    IN  /\ http_response' =
            IF project = NoDocument
            THEN Response("get_render_status", pid, 404)
            ELSE [Response("get_render_status", pid, 200) EXCEPT
                    !.body = Some(render_status_body(pid, project))]
        /\ UNCHANGED <<project_collection, issued, tasks, clock, callbacks,
                       audit, exchange, catalog>>

\* --------------------------------------------------------- background jobs

\* The task after it wrote `status` (and possibly moved on).
wrote(task, status) == [task EXCEPT !.writes = Append(@, status)]

\* A job that goes on from where it was after its last write.
finished_still_running(task, outcome) == [task EXCEPT !.outcome = outcome]

\* The job is over: its locals are gone.
finished(task, outcome) ==
    [task EXCEPT !.pc = "done", !.outcome = outcome, !.render_job_id = None,
                 !.project = None]

\* The $set of a terminal failure.
failed_fields(now) == [status |-> FAILED, render_completed_at |-> now]

\* The $set of a start that records no time.
processing_fields_unstamped(now) == [status |-> PROCESSING]

\* The $set with which both jobs begin.
processing_fields(now) == [status |-> PROCESSING, render_started_at |-> now]

\* The $set of a completion that records no result.
completed_fields_bare(result, now) ==
    [status |-> COMPLETED, render_completed_at |-> now]

\* The $set of a successful completion.
completed_fields(result, now) ==
    [status |-> COMPLETED,
     video_url |-> result.video_url,
     thumbnail_url |-> result.thumbnail_url,
     duration_seconds |-> result.duration_seconds,
     file_size_mb |-> result.file_size_mb,
     render_completed_at |-> now]

\* One write of task j to its project, with the read of the clock it holds.
job_write(j, fields, task) ==
    /\ project_collection' =
        update_one(project_collection, tasks[j].project_id, fields)
    /\ clock' = clock + 1
    /\ tasks' = [tasks EXCEPT ![j] = task]
    /\ UNCHANGED <<issued, callbacks, http_response, audit, exchange, catalog>>

\* A step of task j that writes nothing.
job_local(j, task) ==
    /\ tasks' = [tasks EXCEPT ![j] = task]
    /\ UNCHANGED <<project_collection, issued, clock, callbacks, http_response,
                   audit, exchange, catalog>>

\* A job that goes for the project data without its first write.
job_start_deferred(j) ==
    /\ tasks[j].pc = "start"
    /\ job_local(j, [tasks[j] EXCEPT
                        !.pc = IF tasks[j].use_real_render
                               THEN "find" ELSE "mock"])

\* process_real_render_job and process_mock_render_job, first statement:
\* "Update status to processing".
job_start(j) ==
    /\ tasks[j].pc = "start"
    /\ job_write(j, processing_fields(utcnow),
                 wrote([tasks[j] EXCEPT
                            !.pc = IF tasks[j].use_real_render
                                   THEN "find" ELSE "mock"],
                       PROCESSING))

\* process_real_render_job: "Get project data".
job_find(j) ==
    /\ tasks[j].pc = "find"
    /\ LET project == find_one(project_collection, tasks[j].project_id)
       IN  IF project = NoDocument
           THEN job_local(j, [tasks[j] EXCEPT !.pc = "except"])
           ELSE job_local(j, [tasks[j] EXCEPT
                    !.pc = "submit",
                    !.project = Some([template_id |-> project.template_id,
                                      parameters  |-> project.parameters])])

\* process_real_render_job: RenderEngine.start_render_job and the branch on
\* render_result["success"]; a failed start writes FAILED.
job_submit(j) ==
    /\ tasks[j].pc = "submit"
    /\ \E post \in engine_calls(PostCalls) :
        LET render_result == start_render_job(tasks[j].project_id, post)
            called == tallied([tasks[j] EXCEPT
                           !.call = recorded("POST", post),
                           !.request = Some(render_request(
                                           tasks[j].project[1].template_id,
                                           tasks[j].project[1].parameters))],
                              "POST", post)
        IN  IF render_result.success
            THEN job_local(j, [called EXCEPT
                                   !.pc = "poll",
                                   !.render_job_id = render_result.render_job_id])
            ELSE job_write(j, failed_fields(utcnow),
                           wrote(finished(called, "submit_failed"), FAILED))

\* process_real_render_job: the body of `for attempt in range(max_polls)`,
\* the sleep before the next iteration included.
poll_iteration(j) ==
    \E head \in engine_calls(HeadCalls) :
        LET completion_result ==
                check_render_completion(tasks[j].render_job_id[1], head)
            called == tallied([tasks[j] EXCEPT
                           !.attempt = @ + 1,
                           !.call = recorded("HEAD", head),
                           !.polled = seen(@, check_render_status(head).status)],
                              "HEAD", head)
        IN  IF completion_result.completed
            THEN IF completion_result.success
                 THEN job_write(j, completed_fields(completion_result, utcnow),
                                wrote(finished(called, "completed"), COMPLETED))
                 ELSE job_write(j, failed_fields(utcnow),
                                wrote(finished(called, "poll_failed"), FAILED))
            ELSE job_local(j, called)

\* A poll loop that runs its body once more than range(max_polls) does.
job_poll_overrun(j) ==
    /\ tasks[j].pc = "poll"
    /\ tasks[j].attempt <= max_polls
    /\ poll_iteration(j)

\* process_real_render_job: one iteration of the poll loop.
job_poll(j) ==
    /\ tasks[j].pc = "poll"
    /\ tasks[j].attempt < max_polls
    /\ poll_iteration(j)

\* The end of the poll loop without the write of FAILED.
job_timeout_silent(j) ==
    /\ tasks[j].pc = "poll"
    /\ tasks[j].attempt = max_polls
    /\ job_local(j, finished(tasks[j], "timeout"))

\* process_real_render_job: "Timeout reached".
job_timeout(j) ==
    /\ tasks[j].pc = "poll"
    /\ tasks[j].attempt = max_polls
    /\ job_write(j, failed_fields(utcnow),
                 wrote(finished(tasks[j], "timeout"), FAILED))

\* process_real_render_job: "Mark as failed on exception".
job_except(j) ==
    /\ tasks[j].pc = "except"
    /\ job_write(j, failed_fields(utcnow),
                 wrote(finished(tasks[j], "exception"), FAILED))

\* process_mock_render_job after its sleep: mock_render_job always succeeds.
job_mock(j) ==
    /\ tasks[j].pc = "mock"
    /\ IF mock_render_job.success
       THEN job_write(j, completed_fields(mock_render_job, utcnow),
                      wrote(finished(tasks[j], "completed"), COMPLETED))
       ELSE job_write(j, failed_fields(utcnow),
                      wrote(finished(tasks[j], "mock_failed"), FAILED))

\* One step of a background task.
job_step(j) ==
    \/ job_start(j)
    \/ job_find(j)
    \/ job_submit(j)
    \/ job_poll(j)
    \/ job_timeout(j)
    \/ job_except(j)
    \/ job_mock(j)

\* ----------------------------------------------------------- specification

\* The routes below and the mock job read neither template_id nor parameters,
\* so the requests of Next create one kind of project.
Next ==
    \/ \E user \in Creators : create_project(user, NewsStory)
    \/ \E pid \in RequestIds, user \in Users : delete_project(pid, user)
    \/ \E pid \in RequestIds, user \in Users, use_real_render \in BOOLEAN :
            render_project(pid, user, use_real_render)
    \/ \E pid \in RequestIds, callback_data \in CallbackPayloads :
            render_callback(pid, callback_data)
    \/ \E j \in 1..Len(tasks) : job_step(j)

Spec == Init /\ [][Next]_vars

\* The event loop keeps running every background task that can take a step.
Fairness ==
    \A j \in 1..(MaxRealJobs + MaxMockJobs) :
        WF_vars(j <= Len(tasks) /\ job_step(j))

SpecLive == Spec /\ Fairness

\* One render cycle left to itself (no callback, no delete, no mock job),
\* with the trace of every engine call the job makes kept in its task.
InitCycle == InitState /\ audit = "trace"

NextCycle ==
    \/ \E user \in Creators, project_data \in ProjectCreates :
            create_project(user, project_data)
    \/ \E pid \in RequestIds, user \in Users : render_project(pid, user, TRUE)
    \/ \E j \in 1..Len(tasks) : job_step(j)

SpecCycle == InitCycle /\ [][NextCycle]_vars

\* One render cycle left to itself, with the count of the HTTP requests the
\* job sends to the engine.
InitBudget == InitState /\ audit = "tally"

NextBudget ==
    \/ \E user \in Creators : create_project(user, NewsStory)
    \/ \E pid \in RequestIds, user \in Users : render_project(pid, user, TRUE)
    \/ \E j \in 1..Len(tasks) : job_step(j)

SpecBudget == InitBudget /\ [][NextBudget]_vars

\* A database access of process_real_render_job raises (the server is
\* unreachable, the operation times out): the first update_one, the find_one
\* or a terminal update_one.  Each stands inside the try block, so control
\* passes to the except clause and the access changes nothing.
job_db_error(j) ==
    /\ tasks[j].use_real_render
    /\ \/ /\ tasks[j].pc \in {"start", "find"}
          /\ job_local(j, [tasks[j] EXCEPT !.pc = "except"])
       \/ /\ tasks[j].pc = "submit"
          /\ \E post \in engine_calls(PostCalls) :
                /\ ~start_render_job(tasks[j].project_id, post).success
                /\ job_local(j, [tasks[j] EXCEPT
                                    !.call = recorded("POST", post),
                                    !.request = Some(render_request(
                                                    tasks[j].project[1].template_id,
                                                    tasks[j].project[1].parameters)),
                                    !.pc = "except"])
       \/ /\ tasks[j].pc = "poll"
          /\ tasks[j].attempt < max_polls
          /\ \E head \in engine_calls(HeadCalls) :
                /\ check_render_completion(tasks[j].render_job_id[1], head).completed
                /\ job_local(j, [tasks[j] EXCEPT
                                    !.attempt = @ + 1,
                                    !.call = recorded("HEAD", head),
                                    !.polled = seen(@, check_render_status(head).status),
                                    !.pc = "except"])
       \/ /\ tasks[j].pc = "poll"
          /\ tasks[j].attempt = max_polls
          /\ job_local(j, [tasks[j] EXCEPT !.pc = "except"])

\* The update_one of the except clause raises: nothing encloses it, so the
\* exception leaves process_real_render_job and nothing is written.
job_except_error(j) ==
    /\ tasks[j].pc = "except"
    /\ job_local(j, finished(tasks[j], "escaped"))

\* render_callback when its update_one raises: the except clause answers 500
\* and nothing is written.
render_callback_db_error(pid, callback_data) ==
    /\ callbacks < MaxCallbacks
    /\ callbacks' = callbacks + 1
    /\ clock' = clock + 1
    /\ http_response' = Response("render_callback", pid, 500)
    /\ UNCHANGED <<project_collection, issued, tasks, audit, exchange, catalog>>

\* One render cycle and the callbacks for it against a database that may
\* fail.
NextFaulty ==
    \/ \E user \in Creators, project_data \in ProjectCreates :
            create_project(user, project_data)
    \/ \E pid \in RequestIds, user \in Users : render_project(pid, user, TRUE)
    \/ \E j \in 1..Len(tasks) : job_step(j)
    \/ \E j \in 1..Len(tasks) : job_db_error(j)
    \/ \E j \in 1..Len(tasks) : job_except_error(j)
    \/ \E pid \in RequestIds, callback_data \in CallbackPayloads :
            render_callback(pid, callback_data)
    \/ \E pid \in RequestIds, callback_data \in CallbackPayloads :
            render_callback_db_error(pid, callback_data)

SpecFaulty == Init /\ [][NextFaulty]_vars

\* The project routes around one render job: the owner and another user
\* read and update the project while it is rendered and called back.
NextRoutes ==
    \/ \E user \in Creators : create_project(user, NewsStory)
    \/ \E pid \in RequestIds, user \in Users : delete_project(pid, user)
    \/ \E pid \in RequestIds, user \in Users : render_project(pid, user, TRUE)
    \/ \E pid \in RequestIds, callback_data \in CallbackPayloads :
            render_callback(pid, callback_data)
    \/ \E pid \in RequestIds, user \in Users, body \in UpdateBodies :
            update_project(pid, user, body)
    \/ \E pid \in RequestIds, user \in Users : get_project(pid, user)
    \/ \E user \in Users : get_user_projects(user)
    \/ \E pid \in RequestIds, user \in Users : get_render_status(pid, user)
    \/ \E j \in 1..Len(tasks) : job_step(j)

SpecRoutes == Init /\ [][NextRoutes]_vars

\* shutdown that marks the projects of the running tasks as failed.
shutdown_recorded ==
    /\ \E j \in 1..Len(tasks) : tasks[j].pc # "done"
    /\ tasks' = [j \in 1..Len(tasks) |->
                    IF tasks[j].pc # "done"
                    THEN wrote(finished(tasks[j], "abandoned"), FAILED)
                    ELSE tasks[j]]
    /\ project_collection' =
        [pid \in ProjectIds |->
            IF /\ project_collection[pid] # NoDocument
               /\ \E j \in 1..Len(tasks) :
                    tasks[j].pc # "done" /\ tasks[j].project_id = pid
            THEN update_one(project_collection, pid, failed_fields(utcnow))[pid]
            ELSE project_collection[pid]]
    /\ clock' = clock + 1
    /\ http_response' = NoResponse
    /\ UNCHANGED <<issued, callbacks, audit, exchange, catalog>>

\* The process stops while background tasks are running and is started
\* again.  The tasks are gone with the event loop: a cancelled task gets
\* asyncio.CancelledError, which `except Exception` does not catch, and a
\* killed process runs nothing; no shutdown handler is registered and
\* startup_event touches only the templates.
shutdown ==
    /\ \E j \in 1..Len(tasks) : tasks[j].pc # "done"
    /\ tasks' = [j \in 1..Len(tasks) |->
                    IF tasks[j].pc # "done"
                    THEN finished(tasks[j], "abandoned")
                    ELSE tasks[j]]
    /\ http_response' = NoResponse
    /\ UNCHANGED <<project_collection, issued, clock, callbacks, audit,
                   exchange, catalog>>

\* Render requests and jobs with restarts of the process and no callback.
NextShutdown ==
    \/ \E user \in Creators : create_project(user, NewsStory)
    \/ \E pid \in RequestIds, user \in Users : delete_project(pid, user)
    \/ \E pid \in RequestIds, user \in Users, use_real_render \in BOOLEAN :
            render_project(pid, user, use_real_render)
    \/ \E j \in 1..Len(tasks) : job_step(j)
    \/ shutdown

SpecShutdown == Init /\ [][NextShutdown]_vars

\* ------------------------------------------------------- template catalog

\* The sample templates startup_event inserts into an empty collection (two
\* of the four).
sample_templates ==
    [template_id \in {"tmpl-newspaper", "tmpl-corporate-intro"} |->
        SeededTemplates[template_id]]

\* update_many({}, {"$set": {"is_active": True}})
activated(templates) ==
    [template_id \in DOMAIN templates |->
        [templates[template_id] EXCEPT !.is_active = TRUE]]

\* startup_event: the samples for an empty collection; every template
\* activated when none is active; else the collection as it is.
startup_event(stored) ==
    IF DOMAIN stored = {} THEN sample_templates
    ELSE IF \A template_id \in DOMAIN stored : ~stored[template_id].is_active
    THEN activated(stored)
    ELSE stored

\* What the database can hold of templates when the process starts: nothing,
\* or the catalog with any of its templates switched off.
StoredCatalogs ==
    { <<>> } \cup
    { [template_id \in DOMAIN SeededTemplates |->
            [SeededTemplates[template_id] EXCEPT !.is_active = flags[template_id]]] :
        flags \in [DOMAIN SeededTemplates -> BOOLEAN] }

\* The queries of search_templates, and for each template those that occur
\* in its name or its description ("$regex" with option "i").
SearchQueries == {"news", "professional", "countdown", "wedding"}

text_matches(template_id) ==
    CASE template_id = "tmpl-newspaper" -> {"news"}
      [] template_id = "tmpl-corporate-intro" -> {"professional"}
      [] OTHER -> {"countdown"}

Categories == {"News", "Business", "Events", "Social"}

\* The ids a request can name: those of the catalog and one of no template.
TemplateRequestIds == DOMAIN SeededTemplates \cup {"tmpl-missing"}

\* The ProjectCreate bodies sent to create_project, one per template id.
TemplateCreates ==
    { [template_id |-> template_id, parameters |-> [text |-> Some(<<"X">>)]] :
        template_id \in TemplateRequestIds }

\* The templates find({..., "is_active": True}) yields.
active_templates(templates) ==
    {template_id \in DOMAIN templates : templates[template_id].is_active}

\* The answer of a template route: the ids of the templates it returns.
Listing(handler, status_code, templates) ==
    [Response(handler, "", status_code) EXCEPT !.body = Some(templates)]

\* A template route that writes nothing.
template_read(response) ==
    /\ http_response' = response
    /\ UNCHANGED <<project_collection, issued, tasks, clock, callbacks, audit,
                   exchange, catalog>>

\* GET /templates/
get_all_templates ==
    template_read(Listing("get_all_templates", 200,
                          active_templates(template_collection)))

\* GET /templates/category/{category}
get_templates_by_category(category) ==
    template_read(Listing("get_templates_by_category", 200,
        {template_id \in active_templates(template_collection) :
            template_collection[template_id].category = category}))

\* GET /templates/{template_id}
get_template_by_id(template_id) ==
    IF find_active_template(template_collection, template_id) = None
    THEN template_read(Listing("get_template_by_id", 404, {}))
    ELSE template_read(Listing("get_template_by_id", 200, {template_id}))

\* GET /templates/search/{query}
search_templates(query) ==
    template_read(Listing("search_templates", 200,
        {template_id \in active_templates(template_collection) :
            \/ query \in text_matches(template_id)
            \/ query \in template_collection[template_id].tags}))

\* POST /templates/{template_id}/save
save_template(template_id, user) ==
    /\ IF find_active_template(template_collection, template_id) = None
       THEN /\ http_response' = Listing("save_template", 404, {})
            /\ UNCHANGED saved_templates_collection
       ELSE IF <<user, template_id>> \in saved_templates_collection
       THEN /\ http_response' = Listing("save_template", 400, {})
            /\ UNCHANGED saved_templates_collection
       ELSE /\ http_response' = Listing("save_template", 200, {})
            /\ saved_templates_collection' =
                    saved_templates_collection \cup {<<user, template_id>>}
    /\ UNCHANGED <<project_collection, issued, tasks, clock, callbacks, audit,
                   exchange, template_collection>>

\* DELETE /templates/{template_id}/unsave
unsave_template(template_id, user) ==
    /\ IF <<user, template_id>> \in saved_templates_collection
       THEN /\ http_response' = Listing("unsave_template", 200, {})
            /\ saved_templates_collection' =
                    saved_templates_collection \ {<<user, template_id>>}
       ELSE /\ http_response' = Listing("unsave_template", 404, {})
            /\ UNCHANGED saved_templates_collection
    /\ UNCHANGED <<project_collection, issued, tasks, clock, callbacks, audit,
                   exchange, template_collection>>

\* GET /templates/saved/my-templates
get_saved_templates(user) ==
    template_read(Listing("get_saved_templates", 200,
        {template_id \in active_templates(template_collection) :
            <<user, template_id>> \in saved_templates_collection}))

\* GET /debug/template-status: find({}, ...) with no filter.
get_template_status ==
    template_read(Listing("get_template_status", 200,
                          DOMAIN template_collection))

\* POST /debug/activate-templates
activate_templates ==
    /\ template_collection' = activated(template_collection)
    /\ http_response' = Listing("activate_templates", 200, {})
    /\ UNCHANGED <<project_collection, issued, tasks, clock, callbacks, audit,
                   exchange, saved_templates_collection>>

\* The process started on a database that holds a catalog and what alice
\* saved of it.
InitTemplates ==
    /\ project_collection = [pid \in ProjectIds |-> NoDocument]
    /\ issued = {}
    /\ tasks = <<>>
    /\ clock = 0
    /\ callbacks = 0
    /\ http_response = NoResponse
    /\ exchange = NoExchange
    /\ audit = "none"
    /\ \E stored \in StoredCatalogs :
        /\ template_collection = startup_event(stored)
        /\ saved_templates_collection \in
                SUBSET (Creators \X DOMAIN stored)

NextTemplates ==
    \/ \E user \in Creators, project_data \in TemplateCreates :
            create_project(user, project_data)
    \/ get_all_templates
    \/ \E category \in Categories : get_templates_by_category(category)
    \/ \E template_id \in TemplateRequestIds : get_template_by_id(template_id)
    \/ \E query \in SearchQueries : search_templates(query)
    \/ \E template_id \in TemplateRequestIds, user \in Creators :
            save_template(template_id, user)
    \/ \E template_id \in TemplateRequestIds, user \in Creators :
            unsave_template(template_id, user)
    \/ \E user \in Creators : get_saved_templates(user)
    \/ get_template_status
    \/ activate_templates

SpecTemplates == InitTemplates /\ [][NextTemplates]_vars

\* _make_request on its own: one call, of any method against any script of
\* answers.
make_request_call(method, script) ==
    /\ exchange = NoExchange
    /\ exchange' = [method |-> method, script |-> script,
                    result |-> make_request(method, script)]
    /\ UNCHANGED <<project_collection, issued, tasks, clock, callbacks,
                   http_response, audit, catalog>>

NextRequest ==
    /\ exchange = NoExchange
    /\ \E method \in {"POST", "GET", "HEAD"},
          script \in Scripts(PostAnswers \cup HeadAnswers) :
            make_request_call(method, script)

SpecRequest == Init /\ [][NextRequest]_vars

\* The template ids and parameter mappings _transform_parameters is applied
\* to on its own: every key a branch reads and one that none reads, with a
\* str value or null.
TemplateIds == KnownTemplates \cup {"tmpl-unknown"}

ParameterKeys ==
    { "text", "speed", "font", "font_size", "font_color", "background_color",
      "duration", "headline", "theme_color", "overlay_color", "company_name",
      "primary_color", "secondary_color", "bride_name", "groom_name",
      "subtitle" }

ParameterValues == { None, lit("X"), lit("#112233") }

ParameterMappings ==
    UNION { [keys -> ParameterValues] :
                keys \in { K \in SUBSET ParameterKeys : Cardinality(K) <= MaxParams } }

NoTransform == [template_id |-> "", parameters |-> <<>>, request |-> <<>>]

\* The start of a submit on its own: one template id, one parameters mapping.
transform_call(template_id, parameters) ==
    /\ exchange' = [template_id |-> template_id, parameters |-> parameters,
                    request |-> render_request(template_id, parameters)]
    /\ UNCHANGED <<project_collection, issued, tasks, clock, callbacks,
                   http_response, audit, catalog>>

InitTransform ==
    /\ project_collection = [pid \in ProjectIds |-> NoDocument]
    /\ issued = {}
    /\ tasks = <<>>
    /\ clock = 0
    /\ callbacks = 0
    /\ http_response = NoResponse
    /\ audit = "none"
    /\ exchange = NoTransform
    /\ template_collection = SeededTemplates
    /\ saved_templates_collection = {}

NextTransform ==
    /\ exchange = NoTransform
    /\ \E template_id \in TemplateIds, parameters \in ParameterMappings :
            transform_call(template_id, parameters)

SpecTransform == InitTransform /\ [][NextTransform]_vars

\* ------------------------------------------------------------------ claims

Terminal == {COMPLETED, FAILED}

\* The ids that name a stored project.
Stored == {pid \in ProjectIds : project_collection[pid] # NoDocument}

\* Task j is past its first write and not yet over.
running(j) == tasks[j].pc \notin {"start", "done"}

\* The step is a write of a terminal status by task j.
terminal_write(j) ==
    /\ j <= Len(tasks')
    /\ Len(tasks'[j].writes) = Len(tasks[j].writes) + 1
    /\ tasks'[j].writes[Len(tasks'[j].writes)] \in Terminal

\* The step is render_callback serving a request for pid.
callback_step(pid) ==
    /\ callbacks' = callbacks + 1
    /\ http_response'.project_id = pid

\* C1: for every stored project, render_completed_at is set exactly when the
\* status is completed or failed (never while draft or processing).
C1_CompletedAtIffTerminal ==
    \A pid \in Stored :
        (project_collection[pid].render_completed_at # None)
            <=> (project_collection[pid].status \in Terminal)

\* C2: a callback for a project that is already completed or failed leaves
\* its status and its result fields as they are.
C2_CallbackKeepsTerminal ==
    [][\A pid \in Stored :
        (project_collection[pid].status \in Terminal /\ callback_step(pid))
            => project_collection'[pid] = project_collection[pid]]_vars

\* C3: a terminal write of a real render job (poll success, poll failure,
\* timeout, failed start, exception handler) to a project that is already
\* completed or failed changes nothing of the project.
C3_JobKeepsTerminal ==
    [][\A j \in 1..Len(tasks) :
        (/\ tasks[j].use_real_render
         /\ tasks[j].project_id \in Stored
         /\ project_collection[tasks[j].project_id].status \in Terminal
         /\ terminal_write(j))
            => project_collection'[tasks[j].project_id]
                    = project_collection[tasks[j].project_id]]_vars

\* C4: no project has two background jobs running at the same time.
C4_OneActiveCycle ==
    \A pid \in ProjectIds :
        Cardinality({j \in 1..Len(tasks) :
                        tasks[j].project_id = pid /\ running(j)}) <= 1

\* The project of pid is stored, belongs to user and is being processed.
processing_for(pid, user) ==
    /\ find_one_owned(project_collection, pid, user) # NoDocument
    /\ project_collection[pid].status = PROCESSING

\* C5: render_project by the owner of a project whose stored status is
\* processing answers 400 (already being processed, not the 404 of a project
\* that is not found), adds no background task and changes no project.
C5_ProcessingRejected ==
    [][\A pid \in ProjectIds, user \in Users, use_real_render \in BOOLEAN :
        (processing_for(pid, user) /\ render_project(pid, user, use_real_render))
            => /\ http_response' = Response("render_project", pid, 400)
               /\ tasks' = tasks
               /\ project_collection' = project_collection]_vars

\* C5 happens: a render request was rejected as already processing while the
\* project was being processed by a task.
C5_Witness ==
    /\ http_response = Response("render_project", "proj_a", 400)
    /\ "proj_a" \in Stored
    /\ project_collection["proj_a"].status = PROCESSING
    /\ project_collection["proj_a"].render_started_at # None
    /\ \E j \in 1..Len(tasks) : running(j)

\* The stored project of task j.
project_of(j) == project_collection[tasks[j].project_id]

\* The project of task j is failed, with its completion time set.
failed_project(j) ==
    /\ tasks[j].project_id \in Stored
    /\ project_of(j).status = FAILED
    /\ project_of(j).render_completed_at # None

\* Task j ends in this step.
ending(j) ==
    /\ j <= Len(tasks)
    /\ tasks[j].pc # "done"
    /\ tasks'[j].pc = "done"

\* The step leaves the project of task j failed, with its completion time set.
leaves_failed(j) ==
    LET project == project_collection'[tasks[j].project_id]
    IN  /\ project # NoDocument
        /\ project.status = FAILED
        /\ project.render_completed_at # None

\* What C6 says of a task taken alone.
timeout_after_sixty(task) ==
    /\ task.attempt <= max_polls
    /\ task.polled \subseteq {"ready", "not_found", "error"}
    /\ (task.pc = "poll") => task.writes = <<PROCESSING>>
    /\ (task.pc = "done" /\ task.attempt > 0 /\ "ready" \notin task.polled)
        => task.outcome = "timeout"
    /\ (task.outcome = "timeout")
        => /\ task.attempt = max_polls
           /\ "ready" \notin task.polled
           /\ task.writes = <<PROCESSING, FAILED>>

\* C6: a job none of whose polls reported a terminal result (each answered
\* pending, or ended in an error) makes exactly max_polls = 60 calls of
\* check_render_completion and then writes failed with render_completed_at.
C6_TimeoutAfterSixtyPolls ==
    [][\A j \in 1..Len(tasks') :
        /\ timeout_after_sixty(tasks'[j])
        /\ (ending(j) /\ tasks'[j].outcome = "timeout") => leaves_failed(j)]_vars

\* C6 happens: a job timed out whose every poll ended in an error.
C6_Witness ==
    \E j \in 1..Len(tasks) :
        /\ tasks[j].outcome = "timeout"
        /\ tasks[j].polled = {"error"}
        /\ tasks[j].attempt = 60
        /\ failed_project(j)

\* The submit of the task ended in a rejection: the POST raised on a 4xx.
submit_rejected(task) ==
    /\ task.call.method = "POST"
    /\ task.call.raised
    /\ task.call.error = "rejected"

\* C7: when the submit ends in a rejection (the POST raised on a 4xx), the
\* job writes failed with render_completed_at right after its processing
\* write and never polls.
C7_RejectedSubmitFailsUnpolled ==
    [][\A j \in 1..Len(tasks') :
        submit_rejected(tasks'[j])
        => /\ tasks'[j].pc = "done"
           /\ tasks'[j].outcome = "submit_failed"
           /\ tasks'[j].attempt = 0
           /\ tasks'[j].polled = {}
           /\ tasks'[j].writes = <<PROCESSING, FAILED>>
           /\ ending(j) => leaves_failed(j)]_vars

\* C7 happens: a submit was rejected with a 4xx and the project is failed.
C7_Witness ==
    \E j \in 1..Len(tasks) :
        /\ tasks[j].call.method = "POST"
        /\ tasks[j].call.error = "rejected"
        /\ tasks[j].call.answers[Len(tasks[j].call.answers)].status = 400
        /\ failed_project(j)

\* The answer is a response of the engine with a 4xx status.
rejection(answer) ==
    answer.kind = "http" /\ answer.status >= 400 /\ answer.status < 500

\* The answer is a transport-level failure.
transport_failure(answer) == answer.kind \in {"timeout", "refused"}

\* C8: a 4xx response is not retried: it is the last answer the call asks for.
C8_RejectionNotRetried ==
    \A i \in 1..Len(exchange.result.answers) :
        rejection(exchange.result.answers[i])
            => i = Len(exchange.result.answers)

\* The answer makes _make_request return.
returns(method, answer) ==
    answer.kind = "http" /\ attempt_effect(method, answer).kind = "return"

\* Every attempt the call made failed at transport level, max_retries times.
transport_exhausted(call) ==
    /\ Len(call.answers) = max_retries
    /\ \A i \in 1..Len(call.answers) : transport_failure(call.answers[i])

\* C9: a logical call makes at most max_retries = 3 HTTP attempts; an answer
\* that makes the call return is its last attempt; and a submit whose three
\* attempts all fail at transport level is a failed start: the job is over
\* without a poll and its project is failed.
C9_AtMostThreeAttempts ==
    [][\A j \in 1..Len(tasks') :
        LET call == tasks'[j].call
        IN  /\ Len(call.answers) <= max_retries
            /\ \A i \in 1..Len(call.answers) :
                    returns(call.method, call.answers[i])
                        => (i = Len(call.answers) /\ ~call.raised)
            /\ (call.method = "POST" /\ transport_exhausted(call))
                => /\ call.raised
                   /\ tasks'[j].outcome = "submit_failed"
                   /\ tasks'[j].attempt = 0
                   /\ ending(j) => leaves_failed(j)]_vars

\* C9 happens: all three attempts of a submit failed at transport level.
C9_Witness ==
    \E j \in 1..Len(tasks) :
        /\ tasks[j].call.method = "POST"
        /\ Len(tasks[j].call.answers) = 3
        /\ \A i \in 1..3 : transport_failure(tasks[j].call.answers[i])
        /\ tasks[j].outcome = "submit_failed"
        /\ failed_project(j)

\* C10: with the event loop running the background tasks, a project that is
\* processing is later completed or failed (or deleted), whatever the engine
\* answers.
C10_ProcessingResolves ==
    \A pid \in ProjectIds :
        (pid \in Stored /\ project_collection[pid].status = PROCESSING)
            ~> (pid \notin Stored \/ project_collection[pid].status \in Terminal)

\* C10 happens: the engine never reported a result and the project, once
\* processing, is failed.
C10_Witness ==
    \E j \in 1..Len(tasks) :
        /\ tasks[j].outcome = "timeout"
        /\ tasks[j].writes = <<PROCESSING, FAILED>>
        /\ failed_project(j)

\* C11: a stored project has a video_url only while its status is completed.
C11_VideoUrlOnlyCompleted ==
    \A pid \in Stored :
        (project_collection[pid].video_url # None)
            => project_collection[pid].status = COMPLETED

\* C12: the status of a project becomes completed or failed only from
\* processing.
C12_TerminalOnlyFromProcessing ==
    [][\A pid \in Stored :
        (/\ project_collection'[pid] # NoDocument
         /\ project_collection'[pid].status \in Terminal
         /\ project_collection'[pid].status # project_collection[pid].status)
            => project_collection[pid].status = PROCESSING]_vars

\* No background task has written a terminal status so far.
no_job_resolved ==
    \A j \in 1..Len(tasks) :
        \A i \in 1..Len(tasks[j].writes) : tasks[j].writes[i] \notin Terminal

\* A callback resolved the project of the polling task j: the project, set
\* to processing by j, is completed or failed and no task wrote that.
resolved_by_callback(j) ==
    /\ tasks[j].pc = "poll"
    /\ callbacks > 0
    /\ no_job_resolved
    /\ tasks[j].project_id \in Stored
    /\ project_of(j).status \in Terminal

\* C13: once a callback has resolved the project of a polling job, the job
\* makes no further status check and no further write.
C13_CallbackStopsPolling ==
    [][\A j \in 1..Len(tasks) :
        resolved_by_callback(j)
            => /\ tasks'[j].attempt = tasks[j].attempt
               /\ tasks'[j].writes = tasks[j].writes]_vars

\* The step is a poll of task j whose status check ended in an error: the
\* engine answered the HEAD with a status other than 200 and 404.
poll_error(j) ==
    /\ tasks[j].pc = "poll"
    /\ tasks'[j].attempt = tasks[j].attempt + 1
    /\ tasks'[j].call.method = "HEAD"
    /\ tasks'[j].call.raised
    /\ tasks'[j].call.answers[Len(tasks'[j].call.answers)].kind = "http"

\* C14: a poll whose status check ends in an error ends the job and leaves
\* the project failed, with render_completed_at set.
C14_PollErrorFails ==
    [][\A j \in 1..Len(tasks) :
        poll_error(j) => (tasks'[j].pc = "done" /\ leaves_failed(j))]_vars

\* C15: whenever control reaches the except clause of the background job,
\* the job ends by writing failed with render_completed_at to its project;
\* no exception leaves the job.
C15_FailuresBecomeFailedWrite ==
    [][\A j \in 1..Len(tasks) :
        (tasks[j].pc = "except" /\ tasks'[j].pc = "done")
            => /\ tasks'[j].outcome = "exception"
               /\ terminal_write(j)
               /\ leaves_failed(j)]_vars

\* _transform_parameters has been applied on its own.
transformed == exchange # NoTransform

\* C16: for a known template id and any parameters mapping the payload has
\* all eight renderer fields and none of them is null.
C16_AllFieldsSet ==
    (transformed /\ exchange.template_id \in KnownTemplates)
        => \A f \in RendererFields :
                /\ f \in DOMAIN exchange.request.data
                /\ exchange.request.data[f] # None

\* The parameters each template's mapping names, with the literal default
\* each takes when the input lacks it.
template_defaults(template_id) ==
    CASE template_id = "text-reveal" ->
            [text |-> lit("Default Text"), speed |-> lit("0.1"),
             font |-> lit("Arial"), font_size |-> lit("48"),
             font_color |-> lit("#FF0000"),
             background_color |-> lit("#FFFFFF"), duration |-> lit("5.0")]
      [] template_id = "tmpl-newspaper" ->
            [headline |-> lit("Breaking News"), theme_color |-> lit("#FF0000")]
      [] template_id = "tmpl-social-story" ->
            [text |-> lit("Social Story"), overlay_color |-> lit("#000000")]
      [] template_id = "tmpl-corporate-intro" ->
            [company_name |-> lit("Company"), primary_color |-> lit("#0066CC"),
             secondary_color |-> lit("#FFFFFF")]
      [] template_id = "tmpl-wedding-announcement" ->
            [bride_name |-> lit(""), groom_name |-> lit(""),
             theme_color |-> lit("#FFD700")]
      [] OTHER -> <<>>

\* The mapping restricted to the given keys.
restrict(mapping, keys) == [k \in DOMAIN mapping \cap keys |-> mapping[k]]

\* The mapping with key set to value.
with(mapping, key, value) ==
    [k \in DOMAIN mapping \cup {key} |-> IF k = key THEN value ELSE mapping[k]]

\* C17: the payload has exactly the eight renderer fields; parameters the
\* template's mapping does not name have no part in it; a mapped parameter
\* the input lacks counts as its literal default (for tmpl-newspaper text
\* "Breaking News" and font_color #FF0000).
C17_ExactlyEightFields ==
    transformed =>
        LET template_id == exchange.template_id
            parameters == exchange.parameters
            payload == exchange.request.data
            defaults == template_defaults(template_id)
        IN  /\ DOMAIN payload = RendererFields
            /\ payload = transform_parameters(template_id,
                              restrict(parameters, DOMAIN defaults))
            /\ \A key \in DOMAIN defaults \ DOMAIN parameters :
                    payload = transform_parameters(template_id,
                                  with(parameters, key, defaults[key]))
            /\ (template_id = "tmpl-newspaper" /\ "headline" \notin DOMAIN parameters)
                    => payload.text = lit("Breaking News")
            /\ (template_id = "tmpl-newspaper" /\ "theme_color" \notin DOMAIN parameters)
                    => payload.font_color = lit("#FF0000")

\* C17 happens: tmpl-newspaper parameters with a key the mapping does not
\* name and neither mapped key give the payload of literal defaults.
C17_Witness ==
    /\ transformed
    /\ exchange.template_id = "tmpl-newspaper"
    /\ DOMAIN exchange.parameters = {"subtitle"}
    /\ exchange.request.data.text = lit("Breaking News")
    /\ exchange.request.data.font_color = lit("#FF0000")
    /\ "subtitle" \notin DOMAIN exchange.request.data

\* C18: for a template id that is not known the payload is the fixed default
\* payload whatever the parameters, and the request to the engine is formed
\* (POST /render/text_reveal with that payload).
C18_UnknownTemplateDefaults ==
    (transformed /\ exchange.template_id \notin KnownTemplates)
        => /\ exchange.request.endpoint = <<"/render/", "text_reveal">>
           /\ exchange.request.data =
                [text |-> lit("Default Text"), speed |-> lit("0.1"),
                 font_name |-> lit("Arial"), font_size |-> lit("24"),
                 font_color |-> lit("#000000"), bg_color |-> lit("#FFFFFF"),
                 duration |-> lit("30.0"), resolution |-> lit("1920x1080")]

\* C18 happens: an unknown template id with parameters that name text.
C18_Witness ==
    /\ transformed
    /\ exchange.template_id = "tmpl-unknown"
    /\ "text" \in DOMAIN exchange.parameters
    /\ exchange.parameters["text"] = lit("X")
    /\ exchange.request.data.text = lit("Default Text")

\* The step is the submit of task j.
submit_step(j) ==
    /\ tasks[j].pc = "submit"
    /\ tasks'[j].request # None

\* The step is a poll of task j that the engine answers with ready (200).
ready_step(j) ==
    /\ tasks[j].pc = "poll"
    /\ tasks'[j].attempt = tasks[j].attempt + 1
    /\ tasks'[j].call.method = "HEAD"
    /\ ~tasks'[j].call.raised
    /\ tasks'[j].call.answers[Len(tasks'[j].call.answers)].status = 200

\* C19: the job of the news story submits text "X", font_color "#112233",
\* bg_color "#FFFFFF", duration 30.0 and resolution "1920x1080"; once the
\* submit is accepted, the poll that reports ready ends the job and leaves
\* the project completed with video_url and render_completed_at set.
C19_NewsStoryEndToEnd ==
    [][\A j \in 1..Len(tasks) :
        (tasks[j].project = Some(NewsStory))
        => /\ submit_step(j)
              => /\ tasks'[j].request[1].endpoint = <<"/render/", "text_reveal">>
                 /\ tasks'[j].request[1].data.text = lit("X")
                 /\ tasks'[j].request[1].data.font_color = lit("#112233")
                 /\ tasks'[j].request[1].data.bg_color = lit("#FFFFFF")
                 /\ tasks'[j].request[1].data.duration = lit("30.0")
                 /\ tasks'[j].request[1].data.resolution = lit("1920x1080")
           /\ ready_step(j)
              => /\ tasks'[j].pc = "done"
                 /\ tasks'[j].outcome = "completed"
                 /\ project_collection'[tasks[j].project_id].status = COMPLETED
                 /\ project_collection'[tasks[j].project_id].video_url # None
                 /\ project_collection'[tasks[j].project_id].render_completed_at
                        # None]_vars

\* C19 happens: the news story was accepted with a 202, was pending on two
\* polls and ready on the third, and its project is completed with a video.
C19_Witness ==
    \E j \in 1..Len(tasks) :
        /\ tasks[j].request # None
        /\ tasks[j].request[1].data.text = lit("X")
        /\ tasks[j].request[1].data.font_color = lit("#112233")
        /\ tasks[j].outcome = "completed"
        /\ tasks[j].attempt = 3
        /\ tasks[j].polled = {"not_found", "ready"}
        /\ project_of(j).template_id = "tmpl-newspaper"
        /\ project_of(j).status = COMPLETED
        /\ project_of(j).video_url # None
        /\ project_of(j).render_completed_at # None

\* Some task has set the stored project of pid to processing (a document is
\* never stored again under the id of a deleted one).
was_processing(pid) ==
    \E j \in 1..Len(tasks) :
        tasks[j].project_id = pid /\ Len(tasks[j].writes) > 0

\* C20: render_started_at of a stored project is set exactly if its status
\* has been processing; a step changes render_started_at only together with
\* setting the status to processing, and sets the status to processing only
\* together with setting render_started_at.
C20_StartedAtIffEverProcessing ==
    [][\A pid \in ProjectIds :
        (project_collection'[pid] # NoDocument)
        => /\ (project_collection'[pid].render_started_at # None)
                <=> was_processing(pid)'
           /\ (/\ project_collection[pid] # NoDocument
               /\ project_collection'[pid].render_started_at
                    # project_collection[pid].render_started_at)
              => /\ project_collection'[pid].status = PROCESSING
                 /\ project_collection'[pid].render_started_at # None
           /\ (/\ project_collection[pid] # NoDocument
               /\ project_collection'[pid].status = PROCESSING
               /\ project_collection[pid].status # PROCESSING)
              => /\ project_collection'[pid].render_started_at # None
                 /\ project_collection'[pid].render_started_at
                        # project_collection[pid].render_started_at]_vars

\* C20 happens: a project was set to processing by its job, which stamped
\* render_started_at, and has been completed since.
C20_Witness ==
    \E pid \in Stored :
        /\ project_collection[pid].status = COMPLETED
        /\ project_collection[pid].render_started_at # None
        /\ project_collection[pid].render_completed_at # None
        /\ was_processing(pid)

\* The fields of the render lifecycle.
RenderFields ==
    { "status", "render_started_at", "render_completed_at", "video_url",
      "thumbnail_url", "duration_seconds", "file_size_mb" }

\* What a document holds of the render lifecycle.
lifecycle(project) ==
    IF project = NoDocument THEN NoDocument
    ELSE [f \in RenderFields |-> project[f]]

\* The step is a request to one of the project routes that are no part of
\* the render coordinator.
bystander_step ==
    /\ http_response'.handler \in
        {"update_project", "get_project", "get_user_projects", "get_render_status"}
    /\ \/ \E pid \in RequestIds, user \in Users, body \in UpdateBodies :
                update_project(pid, user, body)
       \/ \E pid \in RequestIds, user \in Users : get_project(pid, user)
       \/ \E user \in Users : get_user_projects(user)
       \/ \E pid \in RequestIds, user \in Users : get_render_status(pid, user)

\* C21: update_project, get_project, get_user_projects and get_render_status
\* leave status, the two timestamps and the result fields of every project
\* as they are, whatever the request body.
C21_BystandersKeepRenderFields ==
    [][(\E pid \in ProjectIds :
            lifecycle(project_collection'[pid]) # lifecycle(project_collection[pid]))
        => ~bystander_step]_vars

\* C21 happens: the owner's update took effect on a project that is being
\* rendered.
C21_Witness ==
    /\ http_response = Response("update_project", "proj_a", 200)
    /\ "proj_a" \in Stored
    /\ project_collection["proj_a"].status = PROCESSING
    /\ project_collection["proj_a"].parameters = [headline |-> Some(<<"Y">>)]
    /\ project_collection["proj_a"].video_url = None

\* C22: get_render_status changes nothing; for the owner it returns the
\* status, timestamps and result fields the project holds at that moment,
\* for anyone else and for an id without a project it answers 404 with no
\* field of a project.
C22_StatusReadOwnerGated ==
    [][\A pid \in RequestIds, user \in Users :
        (http_response'.handler = "get_render_status"
            /\ get_render_status(pid, user))
        => /\ project_collection' = project_collection
           /\ IF /\ project_collection[pid] # NoDocument
                 /\ project_collection[pid].user_id = user
              THEN /\ http_response'.status_code = 200
                   /\ http_response'.body # None
                   /\ DOMAIN http_response'.body[1] = RenderFields \cup {"project_id"}
                   /\ \A f \in RenderFields :
                        http_response'.body[1][f] = project_collection[pid][f]
              ELSE /\ http_response'.status_code = 404
                   /\ http_response'.body = None]_vars

\* C22 happens: the owner read the status of a completed project and got
\* its video_url.
C22_Witness ==
    /\ http_response.handler = "get_render_status"
    /\ http_response.status_code = 200
    /\ "proj_a" \in Stored
    /\ http_response.body[1].status = COMPLETED
    /\ http_response.body[1].video_url # None
    /\ http_response.body[1].video_url = project_collection["proj_a"].video_url
    /\ http_response.body[1].render_completed_at
            = project_collection["proj_a"].render_completed_at

\* C28: is_public of a project changes only in an update_project of its
\* owner (never in a step of a render job or in a callback); an
\* update_project by anyone else answers 404 and changes nothing.
C28_IsPublicOwnerOnly ==
    [][\A pid \in ProjectIds :
        /\ (/\ project_collection[pid] # NoDocument
            /\ project_collection'[pid] # NoDocument
            /\ project_collection'[pid].is_public # project_collection[pid].is_public)
           => \E body \in UpdateBodies :
                update_project(pid, project_collection[pid].user_id, body)
        /\ \A user \in Users, body \in UpdateBodies :
            (/\ http_response'.handler = "update_project"
             /\ project_collection[pid] # NoDocument
             /\ project_collection[pid].user_id # user
             /\ update_project(pid, user, body))
            => /\ http_response' = Response("update_project", pid, 404)
               /\ project_collection' = project_collection]_vars

\* C28 happens: a project made public by its owner went through a render
\* and is still public, and another user's update was rejected.
C28_Witness ==
    /\ http_response = Response("update_project", "proj_a", 404)
    /\ "proj_a" \in Stored
    /\ project_collection["proj_a"].is_public
    /\ project_collection["proj_a"].status = COMPLETED
    /\ project_collection["proj_a"].render_started_at # None

\* The id names no project of the user: there is none, or it is another's.
not_found_for(pid, user) ==
    \/ project_collection[pid] = NoDocument
    \/ project_collection[pid].user_id # user

\* C23: render_project for an id without a project, or with the project of
\* another user, answers 404, adds no background task (so no request goes to
\* the render engine) and changes no project.
C23_RenderNotFound ==
    [][\A pid \in RequestIds, user \in Users, use_real_render \in BOOLEAN :
        (/\ http_response'.handler = "render_project"
         /\ not_found_for(pid, user)
         /\ render_project(pid, user, use_real_render))
        => /\ http_response' = Response("render_project", pid, 404)
           /\ tasks' = tasks
           /\ project_collection' = project_collection]_vars

\* C23 happens: a render request for a stored project was answered 404 (it
\* came from a user who does not own it) and no task exists for it.
C23_Witness ==
    /\ http_response = Response("render_project", "proj_a", 404)
    /\ "proj_a" \in Stored
    /\ project_collection["proj_a"].status = DRAFT
    /\ tasks = <<>>

\* The step is the first write of task j.
start_step(j) ==
    /\ tasks[j].pc = "start"
    /\ tasks'[j].pc # "start"

\* C25: render_project by the owner of a project that is draft, completed or
\* failed is accepted and adds the background task; the first write of the
\* task sets status=processing and render_started_at to the time of that
\* write, in place of the value of any earlier attempt.
C25_RenderAcceptedUnlessProcessing ==
    [][/\ \A pid \in RequestIds, user \in Users, use_real_render \in BOOLEAN :
            (/\ http_response'.handler = "render_project"
             /\ ~not_found_for(pid, user)
             /\ project_collection[pid].status \in {DRAFT, COMPLETED, FAILED}
             /\ render_project(pid, user, use_real_render))
            => /\ http_response' = Response("render_project", pid, 200)
               /\ tasks' = Append(tasks, Task(pid, user, use_real_render))
       /\ \A j \in 1..Len(tasks) :
            (start_step(j) /\ tasks[j].project_id \in Stored)
            => /\ project_collection'[tasks[j].project_id].status = PROCESSING
               /\ project_collection'[tasks[j].project_id].render_started_at
                    = Some(clock')
               /\ project_collection'[tasks[j].project_id].render_started_at
                    # project_of(j).render_started_at]_vars

\* C25 happens: a project completed by one job was submitted again, and the
\* second job has set it to processing with a later render_started_at.
C25_Witness ==
    \E j, k \in 1..Len(tasks) :
        /\ tasks[j].outcome = "completed"
        /\ tasks[k].writes = <<PROCESSING>>
        /\ project_of(k).status = PROCESSING
        /\ project_of(k).render_completed_at # None
        /\ project_of(k).render_started_at[1] > project_of(k).render_completed_at[1]

\* C24: render_callback acknowledges with 200 whatever the project id and
\* the payload (a payload without a success field, an id that matches no
\* project); it answers with an error only when its write raised.
C24_CallbackAcknowledges ==
    [][(callbacks' # callbacks)
        => \A pid \in RequestIds, callback_data \in CallbackPayloads :
            /\ render_callback(pid, callback_data)
                => http_response' = Response("render_callback", pid, 200)
            /\ (callback_step(pid) /\ http_response'.status_code # 200)
                => /\ http_response'.status_code = 500
                   /\ \E failed \in CallbackPayloads :
                        render_callback_db_error(pid, failed)]_vars

\* C24 happens: a callback for an id that matches no project was
\* acknowledged.
C24_Witness ==
    /\ http_response = Response("render_callback", "proj_a", 200)
    /\ callbacks = 1
    /\ "proj_a" \notin Stored
    /\ tasks = <<>>

\* Every task of the project of pid is over.
no_job_left(pid) ==
    \A j \in 1..Len(tasks) : tasks[j].project_id = pid => tasks[j].pc = "done"

\* C26: a shutdown writes nothing to any project; a project left processing
\* with no job running stays processing in every later state in which it
\* exists (no callback arriving); a render_project of its owner is answered
\* 400 and adds no task.
C26_AbandonedStaysProcessing ==
    [][/\ shutdown => project_collection' = project_collection
       /\ \A pid \in ProjectIds :
            (/\ project_collection[pid] # NoDocument
             /\ project_collection[pid].status = PROCESSING
             /\ no_job_left(pid))
            => /\ project_collection'[pid] # NoDocument
                    => project_collection'[pid].status = PROCESSING
               /\ \A user \in Users, use_real_render \in BOOLEAN :
                    (/\ http_response'.handler = "render_project"
                     /\ project_collection[pid].user_id = user
                     /\ render_project(pid, user, use_real_render))
                    => /\ http_response' = Response("render_project", pid, 400)
                       /\ tasks' = tasks]_vars

\* C26 happens: a job was abandoned after its processing write, its project
\* is still processing and a render request made since was rejected.
C26_Witness ==
    \E j \in 1..Len(tasks) :
        /\ tasks[j].outcome = "abandoned"
        /\ tasks[j].writes = <<PROCESSING>>
        /\ no_job_left(tasks[j].project_id)
        /\ tasks[j].project_id \in Stored
        /\ project_of(j).status = PROCESSING
        /\ http_response = Response("render_project", tasks[j].project_id, 400)

\* The step is a status check sent by task j.
check_step(j) == tasks'[j].attempt = tasks[j].attempt + 1

\* The submit of the task returned success: the POST was answered 202 with
\* a body that is not empty.
submit_accepted(task) ==
    /\ task.call.method = "POST"
    /\ ~task.call.raised
    /\ task.call.answers[Len(task.call.answers)].status = 202
    /\ task.call.answers[Len(task.call.answers)].body # BodyEmpty

\* C29: when a job submits, its write of status=processing is made, the
\* request it sends is the transformation of the parameters it found, and it
\* has sent no status check; a job sends a status check only with the job id
\* of a submit that returned success.
C29_CycleStepsOrdered ==
    [][\A j \in 1..Len(tasks) :
        /\ start_step(j)
            => /\ tasks[j].request = None
               /\ project_collection'[tasks[j].project_id] # NoDocument
                    => /\ project_collection'[tasks[j].project_id].status
                            = PROCESSING
                       /\ project_collection'[tasks[j].project_id]
                            .render_started_at = utcnow
        /\ submit_step(j)
            => /\ tasks[j].writes = <<PROCESSING>>
               /\ tasks[j].request = None
               /\ tasks[j].project # None
               /\ tasks'[j].request[1].data =
                    transform_parameters(tasks[j].project[1].template_id,
                                         tasks[j].project[1].parameters)
               /\ tasks[j].attempt = 0
               /\ tasks[j].polled = {}
        /\ check_step(j)
            => /\ tasks[j].request # None
               /\ tasks[j].render_job_id # None
        /\ (tasks[j].render_job_id = None /\ tasks'[j].render_job_id # None)
            => /\ submit_step(j)
               /\ submit_accepted(tasks'[j])]_vars

\* C29 happens: a job that wrote processing and submitted the transformed
\* news story is polling, its last check answered pending.
C29_Witness ==
    \E j \in 1..Len(tasks) :
        /\ tasks[j].pc = "poll"
        /\ tasks[j].writes = <<PROCESSING>>
        /\ tasks[j].request # None
        /\ tasks[j].request[1].data.text = lit("X")
        /\ tasks[j].attempt = 2
        /\ tasks[j].call.method = "HEAD"
        /\ tasks[j].polled = {"not_found"}
        /\ project_of(j).status = PROCESSING

\* The task has written a terminal status.
resolved(task) ==
    \E k \in 1..Len(task.writes) : task.writes[k] \in Terminal

\* C30: a job that has written completed or failed is over: it makes no
\* further engine call and no further write; a job ends with the one
\* terminal write it makes, completed for a ready poll and failed otherwise.
C30_OneTerminalWrite ==
    [][\A j \in 1..Len(tasks) :
        /\ resolved(tasks[j])
            => /\ tasks[j].pc = "done"
               /\ tasks'[j] = tasks[j]
        /\ ending(j)
            => /\ terminal_write(j)
               /\ tasks'[j].writes =
                    <<PROCESSING,
                      IF tasks'[j].outcome = "completed"
                      THEN COMPLETED ELSE FAILED>>
               /\ tasks'[j].outcome \in
                    {"completed", "submit_failed", "poll_failed", "timeout",
                     "exception"}]_vars

\* C30 happens: a job that timed out has ended with its one
\* write of failed, and the job of the next cycle has made its first write.
C30_Witness ==
    /\ Len(tasks) = 2
    /\ tasks[1].pc = "done"
    /\ tasks[1].outcome = "timeout"
    /\ tasks[1].writes = <<PROCESSING, FAILED>>
    /\ tasks[1].attempt = max_polls
    /\ tasks[2].writes = <<PROCESSING>>
    /\ project_of(2).status = PROCESSING

\* The routes that return templates.
TemplateReads ==
    {"get_all_templates", "get_templates_by_category", "get_template_by_id",
     "search_templates", "get_saved_templates", "get_template_status"}

\* The routes of the templates router that return templates.
TemplateRoutes == TemplateReads \ {"get_template_status"}

\* The step is create_project for a template that is missing or not active.
create_without_template ==
    /\ http_response'.handler = "create_project"
    /\ \E user \in Creators, project_data \in TemplateCreates :
        /\ \/ project_data.template_id \notin DOMAIN template_collection
           \/ ~template_collection[project_data.template_id].is_active
        /\ create_project(user, project_data)

\* C27 as amended: create_project for a template that is missing or not
\* active answers 404 and inserts nothing; list, by id, by category, search
\* and saved return no template whose is_active is false; the debug status
\* route lists every template of the collection, active or not.
C27_InactiveHiddenFromRoutes ==
    [][/\ create_without_template
            => /\ http_response'.status_code = 404
               /\ project_collection' = project_collection
       /\ (http_response'.handler \in TemplateRoutes)
            => \A template_id \in http_response'.body[1] :
                    template_collection'[template_id].is_active
       /\ (http_response'.handler = "get_template_status")
            => http_response'.body[1] = DOMAIN template_collection']_vars

\* C27 happens: alice has saved the news template and the countdown
\* template, which is not active, and her saved templates are the first only.
C27_Witness ==
    /\ "tmpl-countdown" \in DOMAIN template_collection
    /\ ~template_collection["tmpl-countdown"].is_active
    /\ {<<"alice", "tmpl-newspaper">>, <<"alice", "tmpl-countdown">>}
            \subseteq saved_templates_collection
    /\ http_response = Listing("get_saved_templates", 200, {"tmpl-newspaper"})

\* C27: create_project for a template that is missing or not active answers
\* 404 and inserts nothing, and no route that returns templates returns one
\* whose is_active is false.
C27_InactiveInvisible ==
    [][/\ \A user \in Creators, project_data \in TemplateCreates :
            (/\ http_response'.handler = "create_project"
             /\ \/ project_data.template_id \notin DOMAIN template_collection
                \/ ~template_collection[project_data.template_id].is_active
             /\ create_project(user, project_data))
            => /\ http_response'.status_code = 404
               /\ project_collection' = project_collection
       /\ (http_response'.handler \in TemplateReads)
            => \A template_id \in http_response'.body[1] :
                    template_collection'[template_id].is_active]_vars

\* The step is a poll of task j in which the engine answered a HEAD with 404.
not_found_step(j) ==
    /\ tasks[j].pc = "poll"
    /\ check_step(j)
    /\ tasks'[j].call.method = "HEAD"
    /\ \E k \in 1..Len(tasks'[j].call.answers) :
            tasks'[j].call.answers[k].status = 404

\* C31: the poll the engine answers with ready (HEAD 200) leaves the project
\* completed in that step, with video_url, thumbnail_url, duration_seconds
\* and file_size_mb set and render_completed_at the time of the write; a 404
\* ends the status check it answers (no attempt follows it), the poll counts
\* as pending and no project changes.
C31_ReadyCompletesNotFoundPends ==
    [][\A j \in 1..Len(tasks) :
        /\ (ready_step(j) /\ tasks[j].project_id \in Stored)
            => LET project == project_collection'[tasks[j].project_id]
               IN  /\ project.status = COMPLETED
                   /\ project.video_url # None
                   /\ project.thumbnail_url # None
                   /\ project.duration_seconds # None
                   /\ project.file_size_mb # None
                   /\ project.render_completed_at = utcnow
                   /\ tasks'[j].pc = "done"
        /\ not_found_step(j)
            => LET call == tasks'[j].call
               IN  /\ call.answers[Len(call.answers)].status = 404
                   /\ \A k \in 1..(Len(call.answers) - 1) :
                        call.answers[k].status # 404
                   /\ ~call.raised
                   /\ (call.answers[1].status = 404)
                        => Len(call.answers) = 1 /\ call.delays = 0
                   /\ tasks'[j].pc = "poll"
                   /\ tasks'[j].writes = tasks[j].writes
                   /\ project_collection' = project_collection]_vars

\* C31 happens: a poll answered 404 at once left the project processing, and
\* the next poll, answered 200, completed it with its four result fields.
C31_Witness ==
    \E j \in 1..Len(tasks) :
        /\ tasks[j].outcome = "completed"
        /\ tasks[j].attempt = 2
        /\ tasks[j].polled = {"not_found", "ready"}
        /\ tasks[j].call.answers = <<Http(200, BodyEmpty)>>
        /\ project_of(j).status = COMPLETED
        /\ project_of(j).thumbnail_url # None
        /\ project_of(j).duration_seconds = Some(30)
        /\ project_of(j).file_size_mb # None

\* The identifiers the engine names in the body of its answer.
returned_identifiers(body) ==
    { body[key] : key \in DOMAIN body \cap {"filename", "job_id"} }

\* C32: the identifier a job takes from its submit, and uses in every status
\* check, is the filename or the job_id of the engine's answer.
C32_PollsReturnedIdentifier ==
    [][\A j \in 1..Len(tasks) :
        (tasks[j].render_job_id = None /\ tasks'[j].render_job_id # None)
        => LET answers == tasks'[j].call.answers
           IN  tasks'[j].render_job_id[1]
                   \in returned_identifiers(answers[Len(answers)].body)]_vars

\* The step is render_project answering pid with its acceptance.
accepted_step(pid) ==
    /\ http_response' = Response("render_project", pid, 200)
    /\ Len(tasks') = Len(tasks) + 1

\* A render of pid was accepted and its job has not made its first write.
accepted_unwritten(pid) ==
    \E j \in 1..Len(tasks) :
        tasks[j].project_id = pid /\ tasks[j].writes = <<>>

\* C33: when render_project answers with its acceptance the stored status
\* is processing, and a get_render_status of the owner after the acceptance
\* reports processing for that attempt.
C33_AcceptedIsProcessing ==
    [][\A pid \in RequestIds :
        /\ accepted_step(pid)
            => project_collection'[pid].status = PROCESSING
        /\ \A user \in Users :
            (/\ http_response'.handler = "get_render_status"
             /\ accepted_unwritten(pid)
             /\ get_render_status(pid, user)
             /\ http_response'.status_code = 200)
            => http_response'.body[1].status = PROCESSING]_vars

\* C34: a stored project whose status is completed has a video_url.
C34_CompletedHasVideo ==
    \A pid \in Stored :
        (project_collection[pid].status = COMPLETED)
        => project_collection[pid].video_url # None

\* C35: a submit the engine answers with 202 starts the poll loop, whatever
\* the body of the answer, and writes no failure.
C35_AcceptedSubmitPolls ==
    [][\A j \in 1..Len(tasks) :
        (/\ submit_step(j)
         /\ tasks'[j].call.answers[Len(tasks'[j].call.answers)].status = 202)
        => /\ tasks'[j].pc = "poll"
           /\ tasks'[j].render_job_id # None
           /\ tasks'[j].writes = <<PROCESSING>>
           /\ project_collection' = project_collection]_vars

\* The answer is a response to a POST that is neither 202 nor an error.
unexpected_status(answer) ==
    answer.kind = "http" /\ answer.status # 202 /\ answer.status < 400

\* C36: a POST that was answered with a status that is neither 202 nor
\* >= 400 returns a value or raises, after at most max_retries attempts
\* with a retry delay between each attempt and the next.
C36_UnexpectedStatusHandled ==
    (/\ exchange.method = "POST"
     /\ \E k \in 1..Len(exchange.result.answers) :
            unexpected_status(exchange.result.answers[k]))
    => /\ exchange.result.raised \/ exchange.result.value # None
       /\ Len(exchange.result.answers) <= max_retries
       /\ exchange.result.delays = Len(exchange.result.answers) - 1

\* The step is a write of task j.
job_write_step(j) == Len(tasks'[j].writes) = Len(tasks[j].writes) + 1

\* C37: a record comes to exist only by create_project, under an id not
\* issued before, so a deleted project never exists again; a write of a
\* background job or of render_callback for an id that matches no record
\* changes no record.
C37_WritesNeverCreate ==
    [][/\ \A pid \in ProjectIds :
            /\ (pid \notin Stored /\ project_collection'[pid] # NoDocument)
                => /\ http_response' = Response("create_project", pid, 200)
                   /\ pid \notin issued
            /\ (pid \in issued /\ pid \notin Stored)
                => project_collection'[pid] = NoDocument
       /\ \A j \in 1..Len(tasks) :
            (job_write_step(j) /\ tasks[j].project_id \notin Stored)
            => project_collection' = project_collection
       /\ \A pid \in RequestIds :
            (callback_step(pid) /\ pid \notin Stored)
            => project_collection' = project_collection]_vars

\* C37 happens: the project was deleted while its job was running, the job
\* went on to its write of failed and a callback for the project was
\* served, and no record of the project exists.
C37_Witness ==
    /\ "proj_a" \in issued
    /\ "proj_a" \notin Stored
    /\ \E j \in 1..Len(tasks) :
        /\ tasks[j].project_id = "proj_a"
        /\ tasks[j].use_real_render
        /\ tasks[j].outcome = "timeout"
        /\ tasks[j].writes = <<PROCESSING, FAILED>>
    /\ callbacks = 1
    /\ http_response = Response("render_callback", "proj_a", 200)

\* C38: a job sends at most 3 submit (POST) requests and at most
\* 60 x 3 = 180 status-check (HEAD) requests, whatever the engine answers.
C38_RequestsBounded ==
    \A j \in 1..Len(tasks) :
        /\ tasks[j].sent["POST"] <= 3
        /\ tasks[j].sent["HEAD"] <= 180
        /\ tasks[j].sent["HEAD"] <= max_retries * tasks[j].attempt

\* C38 happens: a job has sent 3 submits, the last one accepted, and 180
\* status checks, none answered, and has timed out.
C38_Witness ==
    \E j \in 1..Len(tasks) :
        /\ tasks[j].sent["POST"] = 3
        /\ tasks[j].sent["HEAD"] = 180
        /\ tasks[j].attempt = max_polls
        /\ tasks[j].outcome = "timeout"
        /\ tasks[j].writes = <<PROCESSING, FAILED>>

\* C39: the record create_project inserts has status draft, no render
\* times and no result fields, is_public false, the creating user as its
\* user_id and the template and parameters of the request.
C39_CreatedAsDraft ==
    [][\A pid \in ProjectIds :
        (pid \notin Stored /\ project_collection'[pid] # NoDocument)
        => LET project == project_collection'[pid]
           IN  /\ project.status = DRAFT
               /\ project.render_started_at = None
               /\ project.render_completed_at = None
               /\ project.video_url = None
               /\ project.thumbnail_url = None
               /\ project.duration_seconds = None
               /\ project.file_size_mb = None
               /\ project.is_public = FALSE
               /\ \E user \in Creators, project_data \in ProjectCreates :
                    create_project(user, project_data)
               /\ \A user \in Users, project_data \in ProjectCreates :
                    create_project(user, project_data)
                    => /\ project.user_id = user
                       /\ project.template_id = project_data.template_id
                       /\ project.parameters = project_data.parameters]_vars

\* C39 happens: alice has created a project of the countdown template and
\* nothing else has been done with it.
C39_Witness ==
    /\ http_response = Response("create_project", "proj_a", 200)
    /\ "proj_a" \in Stored
    /\ project_collection["proj_a"].user_id = "alice"
    /\ project_collection["proj_a"].template_id = "tmpl-countdown"
    /\ project_collection["proj_a"].status = DRAFT
    /\ ~project_collection["proj_a"].is_public
    /\ tasks = <<>>

====
